---- MODULE Spec2Model ----
(***************************************************************************)
(* Model of src/app.py: Flask multi-backend chat.  One browser session     *)
(* (login / signup / logout, 7-day trial), the gated handlers (/chat,      *)
(* /health, /asklurk, /stream) and the sequential streaming fan-out        *)
(* (stream.generate driving ai_stream) with its shared token counter.      *)
(*                                                                         *)
(* Strings that the code only measures are modelled by what is measured:   *)
(* a system prompt and a delta by their token count (count_tok), an answer *)
(* of /asklurk by its characters.  The prompt and the texts of the files   *)
(* are sequences of pieces that keep the separators and the file names.    *)
(* Time is counted in ticks, TicksPerSecond to the second, so that         *)
(* int(total_seconds()) truncates.                                         *)
(***************************************************************************)
EXTENDS Integers, Sequences, FiniteSets, TLC

VARIABLES
    session,        \* Flask session: a mapping with keys among user_id, signup_time
    now,            \* datetime.now(), in ticks
    env_key,        \* os.getenv("OPENROUTER_API_KEY") is set
    firebase_app,   \* firebase_admin.initialize_app succeeded at start-up
    pc,             \* position of the request being served
    req,            \* the /stream request being served (closure of generate)
    idx,            \* position of model_key in selected_models (for loop of generate)
    global_counter, \* global_counter[0]
    input_tokens,   \* input_tokens of the running ai_stream call
    nchunks,        \* chunks the upstream has delivered during the request
    events,         \* payloads yielded by generate so far, in order
    calls,          \* positions for which client.chat.completions.create was called
    resp,           \* status line and body of the latest HTTP response
    form,           \* history: which fields the latest /stream request carried
    lurk,           \* history: the JSON body the latest /asklurk handler read
    first_signin    \* history: instant of the first successful sign-in, -1 before it

vars == <<session, now, env_key, firebase_app, pc, req, idx, global_counter, input_tokens,
          nchunks, events, calls, resp, form, lurk, first_signin>>

-----------------------------------------------------------------------------
(* Bounds of the model *)

TicksPerSecond == 2     \* clock resolution
MaxLate == 1            \* ticks the clock may run past the first possible expiry
MaxModels == 2          \* length of selected_models
MaxDeltas == 3          \* chunks the upstream delivers during one request
MaxAnswers == 2         \* entries of the answers mapping of /asklurk
MaxAnsLen == 3          \* characters of one answer
MaxFiles == 2           \* files of one upload list

(* Program constants *)

GLOBAL_LIMIT == 300
TrialDays == 7

\* Keys of MODELS (two of its nine profiles, with different system prompts)
MODELS == {"logic", "gpt4o"}

\* count_tok(MODELS[k]["sys"]): tokens of the profile's system prompt
sys_tokens(model_key) == IF model_key = "logic" THEN 3 ELSE 13

-----------------------------------------------------------------------------
(* Time: datetime and timedelta in ticks *)

TicksPerDay == 24 * 3600 * TicksPerSecond

\* timedelta(days=7)
trial_duration == TrialDays * TicksPerDay

\* datetime.isoformat(): the instant written as date, second of day, fraction
isoformat(t) ==
    <<t \div TicksPerDay, (t % TicksPerDay) \div TicksPerSecond, t % TicksPerSecond>>

\* datetime.fromisoformat(): the instant read back from its three fields
fromisoformat(s) == s[1] * TicksPerDay + s[2] * TicksPerSecond + s[3]

\* The instants at which the clock is read: process start and the ticks
\* around the end of a trial begun at process start.
Instants == {0} \cup ((trial_duration - TicksPerSecond)..(trial_duration + MaxLate))

-----------------------------------------------------------------------------
(* The session mapping *)

SessionKeys == {"user_id", "signup_time"}

\* k in session
Has(s, k) == k \in DOMAIN s

\* session[k] = v
Put(s, k, v) == [x \in (DOMAIN s) \cup {k} |-> IF x = k THEN v ELSE s[x]]

\* session.pop(k, None)
Pop(s, k) == [x \in (DOMAIN s) \ {k} |-> s[x]]

EmptySession == [x \in {} |-> 0]

-----------------------------------------------------------------------------
(* Responses *)

NoTimer == <<"none", 0, 0, 0>>

Response(route, code, error) ==
    [route |-> route, code |-> code, error |-> error, best |-> <<>>,
     best_model |-> "", timer_text |-> NoTimer, time_left_sec |-> 0]

\* redirect(url_for(target))
redirect(route, target) == Response(route, 302, target)

NoResponse == Response("", 0, "")

NoForm == [posted |-> FALSE, has_prompt |-> FALSE, prompt |-> <<>>,
           has_files |-> FALSE, files |-> <<>>,
           json_ok |-> FALSE, selected_models |-> <<>>]

NoBody == [has_answers |-> FALSE, answers |-> <<>>, has_prompt |-> FALSE, prompt |-> <<>>]

NoReq == [selected_models |-> <<>>, file_text |-> <<>>, full_prompt |-> <<>>]

\* A handler that starts no stream sends its response and leaves no generator.
NoStream ==
    /\ pc' = "sent"
    /\ UNCHANGED <<req, idx, global_counter, input_tokens, nchunks, events, calls>>

-----------------------------------------------------------------------------
(* 3. Authentication decorator and helpers *)

\* login_required: the wrapped handler runs only with user_id in the session
login_required(s) == Has(s, "user_id")

\* get_time_limit_status() at instant t: (status, timer text, seconds left)
get_time_limit_status(s, t) ==
    IF Has(s, "signup_time")
    THEN LET signup_time == fromisoformat(s["signup_time"])
             expiry_time == signup_time + trial_duration
             time_left == expiry_time - t
             total_seconds == time_left \div TicksPerSecond
             days == time_left \div TicksPerDay
             hours == (total_seconds % (24 * 3600)) \div 3600
             minutes == (total_seconds % 3600) \div 60
             seconds == total_seconds % 60
         IN  IF time_left <= 0
             THEN [status |-> "expired", txt |-> <<"Trial Expired", 0, 0, 0>>,
                   time_left_sec |-> 0]
             ELSE [status |-> "active",
                   txt |-> IF days > 0 THEN <<"dhm", days, hours, minutes>>
                           ELSE IF hours > 0 THEN <<"hms", hours, minutes, seconds>>
                           ELSE <<"ms", minutes, seconds, 0>>,
                   time_left_sec |-> total_seconds]
    ELSE [status |-> "unknown", txt |-> <<"No active trial", 0, 0, 0>>,
          time_left_sec |-> 0]

-----------------------------------------------------------------------------
(* 4. Routes - auth *)

\* ID tokens a client may post: none, one the identity provider rejects,
\* one it verifies.
NoToken == [present |-> FALSE, uid |-> "", genuine |-> FALSE]
ForgedToken == [present |-> TRUE, uid |-> "mallory", genuine |-> FALSE]
GoodToken == [present |-> TRUE, uid |-> "u1", genuine |-> TRUE]
Tokens == {NoToken, ForgedToken, GoodToken}

\* Mutant: the token is decoded without being verified
verify_id_token_unverified(token) == token.present

\* auth.verify_id_token(token) returns (TRUE) or raises (FALSE)
verify_id_token(token) == firebase_app /\ token.genuine

\* Mutant: /login stores the user without starting a trial
login_session_no_trial(s, uid, t) == Put(s, "user_id", uid)

\* The session after a verified sign-in through /login
login_session(s, uid, t) ==
    LET s1 == Put(s, "user_id", uid)
    IN  IF ~Has(s1, "signup_time") THEN Put(s1, "signup_time", isoformat(t)) ELSE s1

\* The session after a verified sign-in through /signup
signup_session(s, uid, t) ==
    Put(Put(s, "user_id", uid), "signup_time", isoformat(t))

\* The session after /logout
logout_session(s) == Pop(Pop(s, "user_id"), "signup_time")

\* The first successful sign-in is remembered (history only).
SignedIn == first_signin' = IF first_signin = -1 THEN now ELSE first_signin

\* GET or POST /login
login(method, token) ==
    /\ pc = "idle"
    /\ NoStream
    /\ UNCHANGED <<now, env_key, firebase_app, form, lurk>>
    /\ IF Has(session, "user_id")
       THEN /\ resp' = redirect("login", "chat")
            /\ UNCHANGED <<session, first_signin>>
       ELSE IF method = "GET"
       THEN /\ resp' = Response("login", 200, "")
            /\ UNCHANGED <<session, first_signin>>
       ELSE IF ~token.present
       THEN /\ resp' = Response("login", 400, "Missing ID token")
            /\ UNCHANGED <<session, first_signin>>
       ELSE IF verify_id_token(token)
       THEN /\ session' = login_session(session, token.uid, now)
            /\ resp' = Response("login", 200, "")
            /\ SignedIn
       ELSE /\ resp' = Response("login", 401, "Invalid token")
            /\ UNCHANGED <<session, first_signin>>

\* GET or POST /signup
signup(method, token) ==
    /\ pc = "idle"
    /\ NoStream
    /\ UNCHANGED <<now, env_key, firebase_app, form, lurk>>
    /\ IF Has(session, "user_id")
       THEN /\ resp' = redirect("signup", "chat")
            /\ UNCHANGED <<session, first_signin>>
       ELSE IF method = "GET"
       THEN /\ resp' = Response("signup", 200, "")
            /\ UNCHANGED <<session, first_signin>>
       ELSE IF ~token.present
       THEN /\ resp' = Response("signup", 400, "Missing ID token")
            /\ UNCHANGED <<session, first_signin>>
       ELSE IF verify_id_token(token)
       THEN /\ session' = signup_session(session, token.uid, now)
            /\ resp' = Response("signup", 200, "")
            /\ SignedIn
       ELSE /\ resp' = Response("signup", 401, "Invalid token")
            /\ UNCHANGED <<session, first_signin>>

\* POST /logout
logout ==
    /\ pc = "idle"
    /\ NoStream
    /\ session' = logout_session(session)
    /\ resp' = Response("logout", 200, "")
    /\ UNCHANGED <<now, env_key, firebase_app, first_signin, form, lurk>>

-----------------------------------------------------------------------------
(* 5. Routes - app *)

\* os.getenv("OPENROUTER_API_KEY"): one key for every model_key
get_key(model_key) == env_key

\* GET /chat
chat ==
    /\ pc = "idle"
    /\ NoStream
    /\ UNCHANGED <<session, now, env_key, firebase_app, first_signin, form, lurk>>
    /\ IF ~login_required(session)
       THEN resp' = redirect("chat", "login")
       ELSE LET st == get_time_limit_status(session, now)
            IN  resp' = [Response("chat", 200, "") EXCEPT
                           !.timer_text = st.txt, !.time_left_sec = st.time_left_sec]

\* GET /health
health ==
    /\ pc = "idle"
    /\ NoStream
    /\ UNCHANGED <<session, now, env_key, firebase_app, first_signin, form, lurk>>
    /\ IF ~login_required(session)
       THEN resp' = redirect("health", "login")
       ELSE resp' = Response("health", 200,
                            IF \E k \in MODELS : get_key(k) THEN "keys_ok" ELSE "no_keys")

\* Time passes between requests.
Tick ==
    /\ pc = "idle"
    /\ \E t \in Instants : t > now /\ now' = t
    /\ UNCHANGED <<session, env_key, firebase_app, pc, req, idx, global_counter,
                   input_tokens, nchunks, events, calls, resp, form, lurk,
                   first_signin>>

-----------------------------------------------------------------------------
(* 6. Core - streaming chat *)

\* A text is a sequence of pieces. A piece is a run of characters known by
\* what produced it (the typed prompt, a file's extracted text, a placeholder,
\* the separator "\n\n"), by the file it names and by the tokens count_tok
\* counts for it. Pieces other than the separator carry no outer whitespace.
Piece(kind, name, tok) == [kind |-> kind, name |-> name, tok |-> tok]

\* Tokens of the separator "\n\n"
SepTokens == 1

\* The separator "\n\n" of the join and of the f-string
NL2 == Piece("nl2", "", SepTokens)

RECURSIVE count_tok(_)
\* count_tok(text): the tokens of a text, piece by piece
count_tok(text) ==
    IF Len(text) = 0 THEN 0 ELSE Head(text).tok + count_tok(Tail(text))

\* Keys a client may put in selected_models: the profiles and one unknown key
ModelKeys == MODELS \cup {"nope"}

Selections == UNION {[1..n -> ModelKeys] : n \in 0..MaxModels}

\* Sizes of the typed prompt: empty, and one that brings the gpt4o profile's
\* input to two tokens below the limit
PromptSizes == {0, GLOBAL_LIMIT - 15}

\* The typed prompts
Prompts == {IF n = 0 THEN <<>> ELSE <<Piece("prompt", "", n)>> : n \in PromptSizes}

\* Token counts of a delta: chunk.choices[0].delta.content may be empty
DeltaSizes == {0, 2}

\* An uploaded file: its filename, the extension the filename ends with,
\* whether reading it raises, and the tokens of the text it holds
UploadFile(name, ext, fails, tok) ==
    [name |-> name, ext |-> ext, fails |-> fails, tok |-> tok]

\* The files a client may upload: a PDF with text, a corrupted PDF, a text
\* file, an empty text file and a file of another type
FileChoices ==
    {UploadFile("a.pdf", "pdf", FALSE, 3), UploadFile("b.pdf", "pdf", TRUE, 0),
     UploadFile("c.txt", "txt", FALSE, 3), UploadFile("d.txt", "txt", FALSE, 0),
     UploadFile("e.bin", "other", FALSE, 0)}

\* Uploads of the fan-out requests: none, or one text file whose text counts
\* three tokens (with the longer prompt it takes the gpt4o profile's input
\* above the limit)
Uploads == {<<>>, <<UploadFile("c.txt", "txt", FALSE, 3)>>}

\* Every upload list of at most MaxFiles files
AllUploads == UNION {[1..n -> FileChoices] : n \in 0..MaxFiles}

\* The forms a client may post to /stream with an upload list of the set U
FormsOver(U) ==
    {f \in [has_prompt : BOOLEAN, prompt : Prompts, files : U,
            json_ok : BOOLEAN, selected_models : Selections] :
        /\ ~f.has_prompt => f.prompt = <<>>
        /\ ~f.json_ok => f.selected_models = <<>> /\ f.prompt = <<>> /\ f.files = <<>>}

\* The forms of the fan-out requests
Forms == FormsOver(Uploads)

\* process_files, one iteration of its loop: the part appended for a file.
\* An exception of the try block is caught and becomes the error placeholder.
extract_part(file) ==
    IF file.fails THEN <<Piece("error", file.name, 7)>>
    ELSE IF file.ext \in {"pdf", "txt"}
    THEN IF file.tok = 0 THEN <<>> ELSE <<Piece("content", file.name, file.tok)>>
    ELSE <<Piece("attached", file.name, 5)>>

\* process_files: text_parts after the loop, one part per file
text_parts(files) == [i \in 1..Len(files) |-> extract_part(files[i])]

RECURSIVE join(_)
\* "\n\n".join(text_parts)
join(parts) ==
    IF Len(parts) = 0 THEN <<>>
    ELSE IF Len(parts) = 1 THEN parts[1]
    ELSE parts[1] \o <<NL2>> \o join(Tail(parts))

\* Mutant: one try block around the whole loop, so that the first failing
\* file ends the extraction
process_files_abort(files) ==
    LET bad == {i \in 1..Len(files) : files[i].fails}
        cut == IF bad = {} THEN Len(files)
               ELSE CHOOSE i \in bad : \A j \in bad : i <= j
    IN  join(text_parts(SubSeq(files, 1, cut)))

\* process_files(files): the parts of all files joined
process_files(files) == join(text_parts(files))

RECURSIVE lstrip(_)
\* Leading whitespace removed
lstrip(text) ==
    IF Len(text) > 0 /\ Head(text).kind = "nl2" THEN lstrip(Tail(text)) ELSE text

RECURSIVE rstrip(_)
\* Trailing whitespace removed
rstrip(text) ==
    IF Len(text) > 0 /\ text[Len(text)].kind = "nl2"
    THEN rstrip(SubSeq(text, 1, Len(text) - 1))
    ELSE text

\* str.strip()
strip(text) == rstrip(lstrip(text))

\* Mutant: the assembled prompt is not stripped
full_prompt_of_unstripped(prompt, file_text) == prompt \o <<NL2>> \o file_text

\* f"{prompt}\n\n{file_text}".strip()
full_prompt_of(prompt, file_text) == strip(prompt \o <<NL2>> \o file_text)

Ev(kind, bot, pos, tokens, msg) ==
    [kind |-> kind, bot |-> bot, pos |-> pos, tokens |-> tokens, msg |-> msg]

\* Mutant: the budget test also refuses a sum equal to the limit
over_limit_ge(counter, inp, limit) == counter + inp >= limit

\* Mutant: the budget test forgets the backend's input tokens
over_limit_no_input(counter, inp, limit) == counter > limit

\* ai_stream's budget test before a delta is counted
over_limit(counter, inp, limit) == counter + inp > limit

\* Mutant: only a negative number of seconds left closes the trial
trial_over_negative(time_left_sec) == time_left_sec < 0

\* The trial test of /stream
trial_over(time_left_sec) == time_left_sec <= 0

\* Mutant: the selected models are processed in reverse order
stream_parse_reversed(f) ==
    IF ~f.json_ok
    THEN [code |-> 500, error |-> "JSONDecodeError", req |-> NoReq]
    ELSE [code |-> 200, error |-> "",
          req |-> [selected_models |->
                       [i \in 1..Len(f.selected_models) |->
                           f.selected_models[Len(f.selected_models) + 1 - i]],
                   file_text |-> process_files(f.files),
                   full_prompt |-> full_prompt_of(IF f.has_prompt THEN f.prompt ELSE <<>>,
                                                  process_files(f.files))]]

\* Mutant: a form without a prompt field is refused with status 400
stream_parse_strict(f) ==
    IF ~f.has_prompt
    THEN [code |-> 400, error |-> "Missing prompt", req |-> NoReq]
    ELSE IF ~f.json_ok
    THEN [code |-> 500, error |-> "JSONDecodeError", req |-> NoReq]
    ELSE [code |-> 200, error |-> "",
          req |-> [selected_models |-> f.selected_models,
                   file_text |-> process_files(f.files),
                   full_prompt |-> full_prompt_of(f.prompt, process_files(f.files))]]

\* /stream reads the form: request.form.get("prompt", ""), json.loads of
\* selected_models (which raises on malformed JSON: status 500),
\* request.files.getlist("files"), process_files and the assembled prompt
stream_parse(f) ==
    IF ~f.json_ok
    THEN [code |-> 500, error |-> "JSONDecodeError", req |-> NoReq]
    ELSE [code |-> 200, error |-> "",
          req |-> [selected_models |-> f.selected_models,
                   file_text |-> process_files(f.files),
                   full_prompt |-> full_prompt_of(IF f.has_prompt THEN f.prompt ELSE <<>>,
                                                  process_files(f.files))]]

\* POST /stream: the handler up to the Response it returns
stream(f) ==
    /\ pc = "idle"
    /\ UNCHANGED <<session, now, env_key, firebase_app, first_signin, lurk,
                   idx, input_tokens, nchunks, events, calls>>
    /\ form' = [posted |-> TRUE, has_prompt |-> f.has_prompt, prompt |-> f.prompt,
                has_files |-> Len(f.files) > 0, files |-> f.files,
                json_ok |-> f.json_ok, selected_models |-> f.selected_models]
    /\ IF ~login_required(session)
       THEN /\ resp' = redirect("stream", "login")
            /\ pc' = "sent"
            /\ UNCHANGED <<req, global_counter>>
       ELSE IF trial_over(get_time_limit_status(session, now).time_left_sec)
       THEN /\ resp' = Response("stream", 403, "Trial expired")
            /\ pc' = "sent"
            /\ UNCHANGED <<req, global_counter>>
       ELSE LET parsed == stream_parse(f)
            IN  /\ resp' = Response("stream", parsed.code, parsed.error)
                /\ req' = parsed.req
                /\ global_counter' = 0
                /\ pc' = IF parsed.code = 200 THEN "start" ELSE "sent"

GenVarsFixed ==
    UNCHANGED <<session, now, env_key, firebase_app, first_signin, lurk, form,
                req, resp>>

\* generate: yield "event: start"
generate_start ==
    /\ pc = "start"
    /\ events' = Append(events, Ev("start", "", 0, 0, ""))
    /\ idx' = 1
    /\ pc' = "loop"
    /\ GenVarsFixed
    /\ UNCHANGED <<global_counter, input_tokens, nchunks, calls>>

\* Mutant: a key that is not in MODELS is reported as the backend's error
generate_skip_reports ==
    /\ pc = "loop"
    /\ idx <= Len(req.selected_models)
    /\ req.selected_models[idx] \notin MODELS
    /\ events' = Append(events, Ev("error", req.selected_models[idx], idx, 0, "Unknown model"))
    /\ idx' = idx + 1
    /\ GenVarsFixed
    /\ UNCHANGED <<pc, global_counter, input_tokens, nchunks, calls>>

\* generate: the for loop meets a key that is not in MODELS
generate_skip ==
    /\ pc = "loop"
    /\ idx <= Len(req.selected_models)
    /\ req.selected_models[idx] \notin MODELS
    /\ idx' = idx + 1
    /\ GenVarsFixed
    /\ UNCHANGED <<pc, global_counter, input_tokens, nchunks, events, calls>>

\* Mutant: after the "No API key" error the loop body goes on to the call
generate_no_key_fallthrough ==
    /\ pc = "loop"
    /\ idx <= Len(req.selected_models)
    /\ req.selected_models[idx] \in MODELS
    /\ ~get_key(req.selected_models[idx])
    /\ events' = Append(events, Ev("error", req.selected_models[idx], idx, 0, "No API key"))
    /\ input_tokens' = sys_tokens(req.selected_models[idx]) + count_tok(req.full_prompt)
    /\ pc' = "create"
    /\ GenVarsFixed
    /\ UNCHANGED <<idx, global_counter, nchunks, calls>>

\* Mutant: the missing key ends the loop and the generator
generate_no_key_return ==
    /\ pc = "loop"
    /\ idx <= Len(req.selected_models)
    /\ req.selected_models[idx] \in MODELS
    /\ ~get_key(req.selected_models[idx])
    /\ events' = Append(events, Ev("error", req.selected_models[idx], idx, 0, "No API key"))
    /\ pc' = "done"
    /\ GenVarsFixed
    /\ UNCHANGED <<idx, global_counter, input_tokens, nchunks, calls>>

\* generate: the backend has no API key
generate_no_key ==
    /\ pc = "loop"
    /\ idx <= Len(req.selected_models)
    /\ req.selected_models[idx] \in MODELS
    /\ ~get_key(req.selected_models[idx])
    /\ events' = Append(events, Ev("error", req.selected_models[idx], idx, 0, "No API key"))
    /\ idx' = idx + 1
    /\ GenVarsFixed
    /\ UNCHANGED <<pc, global_counter, input_tokens, nchunks, calls>>

\* Mutant: every backend starts with a fresh counter
generate_call_fresh_counter ==
    /\ pc = "loop"
    /\ idx <= Len(req.selected_models)
    /\ req.selected_models[idx] \in MODELS
    /\ get_key(req.selected_models[idx])
    /\ input_tokens' = sys_tokens(req.selected_models[idx]) + count_tok(req.full_prompt)
    /\ global_counter' = 0
    /\ pc' = "create"
    /\ GenVarsFixed
    /\ UNCHANGED <<idx, nchunks, events, calls>>

\* generate: input_tokens is counted and ai_stream is entered
generate_call ==
    /\ pc = "loop"
    /\ idx <= Len(req.selected_models)
    /\ req.selected_models[idx] \in MODELS
    /\ get_key(req.selected_models[idx])
    /\ input_tokens' = sys_tokens(req.selected_models[idx]) + count_tok(req.full_prompt)
    /\ pc' = "create"
    /\ GenVarsFixed
    /\ UNCHANGED <<idx, global_counter, nchunks, events, calls>>

\* Mutant: the overall-done marker is yielded only after a non-empty loop
generate_overall_nonempty ==
    /\ pc = "loop"
    /\ idx > Len(req.selected_models)
    /\ events' = IF Len(req.selected_models) = 0 THEN events
                 ELSE Append(events, Ev("overall", "", 0, 0, ""))
    /\ pc' = "done"
    /\ GenVarsFixed
    /\ UNCHANGED <<idx, global_counter, input_tokens, nchunks, calls>>

\* generate: the for loop is over, yield {"overall": "done"}
generate_overall ==
    /\ pc = "loop"
    /\ idx > Len(req.selected_models)
    /\ events' = Append(events, Ev("overall", "", 0, 0, ""))
    /\ pc' = "done"
    /\ GenVarsFixed
    /\ UNCHANGED <<idx, global_counter, input_tokens, nchunks, calls>>

\* ai_stream: client.chat.completions.create returns the upstream stream
ai_stream_create ==
    /\ pc = "create"
    /\ calls' = Append(calls, idx)
    /\ pc' = "iter"
    /\ GenVarsFixed
    /\ UNCHANGED <<idx, global_counter, input_tokens, nchunks, events>>

\* Mutant: the exception is not caught and ends the generator
ai_stream_except_uncaught ==
    /\ pc \in {"create", "iter"}
    /\ calls' = IF pc = "create" THEN Append(calls, idx) ELSE calls
    /\ pc' = "done"
    /\ GenVarsFixed
    /\ UNCHANGED <<idx, events, global_counter, input_tokens, nchunks>>

\* ai_stream: an exception (create, or the iteration of the stream) is caught
\* and yielded as the backend's error
ai_stream_except ==
    /\ pc \in {"create", "iter"}
    /\ calls' = IF pc = "create" THEN Append(calls, idx) ELSE calls
    /\ events' = Append(events, Ev("error", req.selected_models[idx], idx, 0, "exception"))
    /\ idx' = idx + 1
    /\ pc' = "loop"
    /\ GenVarsFixed
    /\ UNCHANGED <<global_counter, input_tokens, nchunks>>

\* Mutant: the delta is counted before the budget test
ai_stream_chunk_counts_first(tok) ==
    /\ pc = "iter"
    /\ nchunks < MaxDeltas
    /\ nchunks' = nchunks + 1
    /\ global_counter' = global_counter + tok
    /\ IF over_limit(global_counter, input_tokens, GLOBAL_LIMIT)
       THEN /\ events' = Append(events, Ev("error", req.selected_models[idx], idx, 0,
                                           "Global token limit reached"))
            /\ pc' = "after"
       ELSE /\ events' = Append(events, Ev("text", req.selected_models[idx], idx, tok, ""))
            /\ UNCHANGED pc
    /\ GenVarsFixed
    /\ UNCHANGED <<idx, input_tokens, calls>>

\* ai_stream: a chunk arrives whose delta counts tok tokens
ai_stream_chunk(tok) ==
    /\ pc = "iter"
    /\ nchunks < MaxDeltas
    /\ nchunks' = nchunks + 1
    /\ IF over_limit(global_counter, input_tokens, GLOBAL_LIMIT)
       THEN /\ events' = Append(events, Ev("error", req.selected_models[idx], idx, 0,
                                           "Global token limit reached"))
            /\ pc' = "after"
            /\ UNCHANGED global_counter
       ELSE /\ global_counter' = global_counter + tok
            /\ events' = Append(events, Ev("text", req.selected_models[idx], idx, tok, ""))
            /\ UNCHANGED pc
    /\ GenVarsFixed
    /\ UNCHANGED <<idx, input_tokens, calls>>

\* ai_stream: the upstream stream is exhausted
ai_stream_exhausted ==
    /\ pc = "iter"
    /\ pc' = "after"
    /\ GenVarsFixed
    /\ UNCHANGED <<idx, global_counter, input_tokens, nchunks, events, calls>>

\* ai_stream: the statement after the for loop, yield {"done": True}
ai_stream_done ==
    /\ pc = "after"
    /\ events' = Append(events, Ev("done", req.selected_models[idx], idx, 0, ""))
    /\ idx' = idx + 1
    /\ pc' = "loop"
    /\ GenVarsFixed
    /\ UNCHANGED <<global_counter, input_tokens, nchunks, calls>>

\* The response has been delivered; the request and its generator are dropped.
request_end ==
    /\ pc \in {"sent", "done"}
    /\ pc' = "idle"
    /\ resp' = NoResponse
    /\ req' = NoReq
    /\ idx' = 0
    /\ global_counter' = 0
    /\ input_tokens' = 0
    /\ nchunks' = 0
    /\ events' = <<>>
    /\ calls' = <<>>
    /\ form' = NoForm
    /\ lurk' = NoBody
    /\ UNCHANGED <<session, now, env_key, firebase_app, first_signin>>

-----------------------------------------------------------------------------
(* 7. AskLurk - best-answer picker *)

Alphabet == {"x"}

AnswerKeys == {"a", "b", "c"}

AnswerStrings == UNION {[1..n -> Alphabet] : n \in 0..MaxAnsLen}

Entry(k, v) == [k |-> k, v |-> v]

\* Mappings in iteration order: sequences of entries with distinct keys
AnswerMaps ==
    UNION {{m \in [1..n -> {Entry(k, v) : k \in AnswerKeys, v \in AnswerStrings}] :
               \A i, j \in 1..n : i # j => m[i].k # m[j].k} : n \in 0..MaxAnswers}

\* JSON bodies a client may post to /asklurk
Bodies ==
    {b \in [has_answers : BOOLEAN, answers : AnswerMaps,
            has_prompt : BOOLEAN, prompt : {<<>>, <<"q">>}] :
        /\ ~b.has_answers => b.answers = <<>>
        /\ ~b.has_prompt => b.prompt = <<>>}

\* Mutant: a later item of equal length replaces the best one
max_replaces_ge(candidate, best) == Len(candidate.v) >= Len(best.v)

\* max's replacement test: a later item wins only with a strictly greater key
max_replaces(candidate, best) == Len(candidate.v) > Len(best.v)

RECURSIVE max_from(_, _, _)
\* max(items, key=...): one pass keeping the best item seen so far
max_from(items, i, best) ==
    IF i > Len(items) THEN best
    ELSE max_from(items, i + 1, IF max_replaces(items[i], best) THEN items[i] ELSE best)

\* max(answers.items(), key=lambda kv: len(kv[1]))
max_answer(items) == max_from(items, 2, items[1])

\* Mutant: only the answers mapping is tested
missing_input_answers_only(answers, prompt) == Len(answers) = 0

\* "not answers or not prompt": an absent field was defaulted to the empty
\* value by data.get, and empty mappings and strings are falsy
missing_input(answers, prompt) == Len(answers) = 0 \/ Len(prompt) = 0

\* POST /asklurk
asklurk(b) ==
    /\ pc = "idle"
    /\ NoStream
    /\ UNCHANGED <<session, now, env_key, firebase_app, first_signin, form>>
    /\ IF ~login_required(session)
       THEN /\ resp' = redirect("asklurk", "login")
            /\ UNCHANGED lurk
       ELSE LET answers == IF b.has_answers THEN b.answers ELSE <<>>
                prompt == IF b.has_prompt THEN b.prompt ELSE <<>>
            IN  /\ lurk' = b
                /\ IF missing_input(answers, prompt)
                   THEN resp' = Response("asklurk", 400, "Missing answers or prompt")
                   ELSE LET best == max_answer(answers)
                        IN  resp' = [Response("asklurk", 200, "") EXCEPT
                                       !.best = best.v, !.best_model = best.k]

-----------------------------------------------------------------------------
(* The system *)

Init ==
    /\ session = EmptySession
    /\ now = 0
    /\ env_key \in BOOLEAN
    /\ firebase_app \in BOOLEAN
    /\ pc = "idle"
    /\ req = NoReq
    /\ idx = 0
    /\ global_counter = 0
    /\ input_tokens = 0
    /\ nchunks = 0
    /\ events = <<>>
    /\ calls = <<>>
    /\ resp = NoResponse
    /\ form = NoForm
    /\ lurk = NoBody
    /\ first_signin = -1

\* A session in which the user has just signed in (the state /login leaves)
InitSignedIn ==
    /\ session = login_session(EmptySession, GoodToken.uid, 0)
    /\ now = 0
    /\ env_key \in BOOLEAN
    /\ firebase_app = TRUE
    /\ pc = "idle"
    /\ req = NoReq
    /\ idx = 0
    /\ global_counter = 0
    /\ input_tokens = 0
    /\ nchunks = 0
    /\ events = <<>>
    /\ calls = <<>>
    /\ resp = NoResponse
    /\ form = NoForm
    /\ lurk = NoBody
    /\ first_signin = 0

\* Forms whose selected_models holds at most n keys
FormsUpTo(n) == {f \in Forms : Len(f.selected_models) <= n}

\* The whole application, one request at a time, with short fan-outs
Next ==
    \/ \E m \in {"GET", "POST"}, t \in Tokens : login(m, t)
    \/ \E m \in {"GET", "POST"}, t \in Tokens : signup(m, t)
    \/ logout
    \/ chat
    \/ health
    \/ Tick
    \/ \E f \in FormsUpTo(1) : stream(f)
    \/ \E b \in Bodies : asklurk(b)
    \/ generate_start
    \/ generate_skip
    \/ generate_no_key
    \/ generate_call
    \/ generate_overall
    \/ ai_stream_create
    \/ ai_stream_except
    \/ \E tok \in DeltaSizes : ai_stream_chunk(tok)
    \/ ai_stream_exhausted
    \/ ai_stream_done
    \/ request_end

Spec == Init /\ [][Next]_vars

\* The /stream requests of a signed-in session, with fan-outs of full length
NextFanout ==
    \/ \E f \in FormsUpTo(MaxModels) : stream(f)
    \/ generate_start
    \/ generate_skip
    \/ generate_no_key
    \/ generate_call
    \/ generate_overall
    \/ ai_stream_create
    \/ ai_stream_except
    \/ \E tok \in DeltaSizes : ai_stream_chunk(tok)
    \/ ai_stream_exhausted
    \/ ai_stream_done
    \/ request_end

SpecFanout == InitSignedIn /\ [][NextFanout]_vars

\* One step of the generator of the request being served
GenStep ==
    \/ generate_start
    \/ generate_skip
    \/ generate_no_key
    \/ generate_call
    \/ generate_overall
    \/ ai_stream_create
    \/ ai_stream_except
    \/ \E tok \in DeltaSizes : ai_stream_chunk(tok)
    \/ ai_stream_exhausted
    \/ ai_stream_done

\* The fan-out with a server that keeps pulling the generator it returned and
\* upstream streams that end: an upstream delivers a chunk, ends or raises,
\* and the chunks of a request are at most MaxDeltas.
SpecFanoutLive == SpecFanout /\ WF_vars(GenStep)

\* The forms of the prompt assembly: every upload list, no backend selected
AssembleForms ==
    {f \in FormsOver(AllUploads) : f.json_ok /\ f.selected_models = <<>>}

\* The /stream requests of a signed-in session that select no backend, with
\* every prompt and every upload list
NextAssemble ==
    \/ \E f \in AssembleForms : stream(f)
    \/ generate_start
    \/ generate_overall
    \/ request_end

SpecAssemble == InitSignedIn /\ [][NextAssemble]_vars

-----------------------------------------------------------------------------
(* Properties of the streaming fan-out *)

\* The events of the backend at position p, in order
EventsAt(p) == SelectSeq(events, LAMBDA e : e.pos = p)

RECURSIVE TextTokens(_)
\* Sum of the tokens fields of the text events among the first n events
TextTokens(n) ==
    IF n = 0 THEN 0
    ELSE TextTokens(n - 1) + (IF events[n].kind = "text" THEN events[n].tokens ELSE 0)

\* count_tok(sys + full_prompt) of the backend at position p
InputOf(p) == sys_tokens(req.selected_models[p]) + count_tok(req.full_prompt)

IsLimitError(e) == e.kind = "error" /\ e.msg = "Global token limit reached"

IsException(e) == e.kind = "error" /\ e.msg = "exception"

\* C1: in one /stream request every event of the backend at position i comes
\* before every event of the backend at position i+1, and the event at
\* position i carries the i-th identifier of the list the client posted.
C1_OrderedByPosition ==
    /\ \A m, n \in 1..Len(events) :
          (m < n /\ events[m].pos > 0 /\ events[n].pos > 0)
              => events[m].pos <= events[n].pos
    /\ \A n \in 1..Len(events) :
          events[n].pos > 0 =>
              /\ events[n].pos <= Len(form.selected_models)
              /\ events[n].bot = form.selected_models[events[n].pos]

\* Two different backends have both streamed text, the second after the first.
C1_Witness ==
    /\ pc = "done"
    /\ \E m, n \in 1..Len(events) :
          /\ m < n
          /\ events[m].kind = "text" /\ events[m].pos = 1
          /\ events[n].kind = "text" /\ events[n].pos = 2
          /\ events[m].bot # events[n].bot

\* C2 (state part): a text event was emitted only while counter + input
\* tokens <= GLOBAL_LIMIT (equality included), a budget error only while the
\* sum was above it; the error is the only one of its position, no text event
\* of that backend follows it, and the counter holds the text tokens alone.
C2_State ==
    /\ global_counter = TextTokens(Len(events))
    /\ \A n \in 1..Len(events) :
          LET e == events[n]
              counter == TextTokens(n - 1)
          IN  /\ e.kind = "text" => counter + InputOf(e.pos) <= GLOBAL_LIMIT
              /\ IsLimitError(e) =>
                    /\ counter + InputOf(e.pos) > GLOBAL_LIMIT
                    /\ \A m \in 1..Len(events) :
                          (m # n /\ IsLimitError(events[m])) => events[m].pos # e.pos
                    /\ \A m \in (n + 1)..Len(events) :
                          ~(events[m].kind = "text" /\ events[m].bot = e.bot)

\* C2 (step part): each delta that arrives yields exactly one event, the
\* budget error when the sum is above the limit and else the text event,
\* which alone raises the counter.
C2_Step ==
    (nchunks' = nchunks + 1) =>
        /\ Len(events') = Len(events) + 1
        /\ SubSeq(events', 1, Len(events)) = events
        /\ IF global_counter + input_tokens > GLOBAL_LIMIT
           THEN /\ IsLimitError(events'[Len(events')])
                /\ global_counter' = global_counter
           ELSE /\ events'[Len(events')].kind = "text"
                /\ global_counter' = global_counter + events'[Len(events')].tokens

\* C2: whenever a delta arrives while counter + input tokens > GLOBAL_LIMIT
\* the backend emits one budget-exceeded error, the counter is not raised and
\* no text event of that backend follows; while the sum is <= GLOBAL_LIMIT
\* (equal included) the delta is emitted as a text event.
C2_BudgetRule == []C2_State /\ [][C2_Step]_vars

\* A backend streamed a delta with the sum exactly at the limit and was then
\* stopped by the budget error.
C2_Witness ==
    \E m, n \in 1..Len(events) :
        /\ m < n
        /\ events[m].kind = "text" /\ events[m].tokens > 0
        /\ TextTokens(m - 1) + InputOf(events[m].pos) = GLOBAL_LIMIT
        /\ IsLimitError(events[n])
        /\ events[n].pos = events[m].pos

\* C3: right after a text event of backend b is counted, the shared counter
\* plus b's input tokens is at most GLOBAL_LIMIT plus the tokens of that delta.
C3_SlackOneChunk ==
    (Len(events) > 0 /\ events[Len(events)].kind = "text") =>
        /\ input_tokens = InputOf(events[Len(events)].pos)
        /\ global_counter + input_tokens <= GLOBAL_LIMIT + events[Len(events)].tokens

\* The limit is passed: the last delta was counted although it took the sum
\* above GLOBAL_LIMIT.
C3_Witness ==
    /\ Len(events) > 0
    /\ events[Len(events)].kind = "text"
    /\ global_counter + input_tokens = GLOBAL_LIMIT + events[Len(events)].tokens
    /\ events[Len(events)].tokens > 0

\* C4: with the upstream credential absent, every selected backend of MODELS
\* that the loop has passed has exactly one event, the "No API key" error,
\* no call was opened, the counter is unchanged, and the loop goes on to the
\* end of the list.
C4_MissingCredential ==
    (~env_key /\ pc \notin {"idle", "sent"}) =>
        /\ calls = <<>>
        /\ global_counter = 0
        /\ \A p \in 1..Len(req.selected_models) :
              IF req.selected_models[p] \in MODELS /\ p < idx
              THEN EventsAt(p) = <<Ev("error", req.selected_models[p], p, 0, "No API key")>>
              ELSE EventsAt(p) = <<>>
        /\ pc = "done" => idx = Len(req.selected_models) + 1

\* Two selected backends were both answered with the "No API key" error.
C4_Witness ==
    /\ ~env_key
    /\ pc = "done"
    /\ Len(req.selected_models) = 2
    /\ \A p \in 1..2 : Len(EventsAt(p)) = 1

\* C5: an upstream exception gives its backend exactly one error event, the
\* last event of that position; one call was made for the position (no retry);
\* and the request still runs to the end: when the generator is finished
\* every selected backend of MODELS has its events and the last event is the
\* overall-done marker.
C5_UpstreamException ==
    /\ \A n \in 1..Len(events) :
          IsException(events[n]) =>
              LET p == events[n].pos
              IN  /\ Len(SelectSeq(events, LAMBDA e : e.pos = p /\ e.kind = "error")) = 1
                  /\ \A m \in (n + 1)..Len(events) : events[m].pos # p
                  /\ Len(SelectSeq(calls, LAMBDA c : c = p)) = 1
    /\ pc = "done" =>
          /\ events[Len(events)].kind = "overall"
          /\ \A p \in 1..Len(req.selected_models) :
                req.selected_models[p] \in MODELS => EventsAt(p) # <<>>

\* The first backend failed after streaming a delta, the second still streamed
\* and the request finished.
C5_Witness ==
    /\ pc = "done"
    /\ Len(EventsAt(1)) = 2
    /\ EventsAt(1)[1].kind = "text"
    /\ IsException(EventsAt(1)[2])
    /\ \E n \in 1..Len(events) : events[n].pos = 2 /\ events[n].kind = "text"

-----------------------------------------------------------------------------
(* Properties of the session, the gates and the picker *)

\* C6: a /stream request is permitted only within the 7 days that follow the
\* user's first sign-in, whatever logins, signups and logouts came between.
C6_FixedTrialWindow ==
    (resp.route = "stream" /\ resp.code = 200) => now <= first_signin + trial_duration

\* C7: a /stream request of an authenticated session made at or after
\* signup_time + 7 days is answered 403 and nothing is streamed: no start
\* marker, no backend event, no upstream call.
C7_ExpiredTrial403 ==
    (/\ form.posted
     /\ Has(session, "user_id")
     /\ Has(session, "signup_time")
     /\ now >= fromisoformat(session["signup_time"]) + trial_duration)
        => /\ resp.route = "stream"
           /\ resp.code = 403
           /\ pc = "sent"
           /\ events = <<>>
           /\ calls = <<>>

\* A /stream request was refused at the very instant the trial ended.
C7_Witness ==
    /\ form.posted
    /\ resp.code = 403
    /\ Has(session, "signup_time")
    /\ now = fromisoformat(session["signup_time"]) + trial_duration

\* C8 as stated: a /stream request of an authenticated session that lacks the
\* prompt field or the files field (its selected_models being well-formed) is
\* answered with a 4xx status before any streaming.
C8_MalformedRejected ==
    (/\ form.posted
     /\ form.json_ok
     /\ Has(session, "user_id")
     /\ (~form.has_prompt \/ ~form.has_files))
        => /\ resp.code \in 400..499
           /\ pc = "sent"
           /\ events = <<>>

\* C8 as amended: for an authenticated session with an active trial and a
\* parsable selected_models, a /stream request that lacks the prompt field or
\* the files field is answered 200 and streamed like any other: the missing
\* prompt counts as the empty text, the missing files as no file, and the
\* first event is the start marker.
C8_MissingFieldsDefaulted ==
    (/\ form.posted
     /\ form.json_ok
     /\ Has(session, "user_id")
     /\ ~trial_over(get_time_limit_status(session, now).time_left_sec)
     /\ (~form.has_prompt \/ ~form.has_files))
        => /\ resp.route = "stream"
           /\ resp.code = 200
           /\ pc # "sent"
           /\ req.selected_models = form.selected_models
           /\ (~form.has_prompt /\ ~form.has_files) => req.full_prompt = <<>>
           /\ pc # "start" => (Len(events) > 0 /\ events[1].kind = "start")

\* A request with neither prompt nor files has streamed a backend's text.
C8_Witness ==
    /\ form.posted
    /\ ~form.has_prompt
    /\ ~form.has_files
    /\ resp.code = 200
    /\ \E n \in 1..Len(events) : events[n].kind = "text"

GatedRoutes == {"stream", "asklurk", "health", "chat"}

\* C9 (state part): a gated route asked without user_id in the session is
\* redirected to login and yields no event, call or best answer; a user_id in
\* the session is the uid of a token the identity provider verified.
C9_State ==
    /\ (resp.route \in GatedRoutes /\ ~Has(session, "user_id")) =>
          /\ resp.code = 302
          /\ resp.error = "login"
          /\ pc = "sent"
          /\ events = <<>>
          /\ calls = <<>>
          /\ resp.best = <<>>
          /\ resp.best_model = ""
          /\ lurk = NoBody
    /\ Has(session, "user_id") =>
          /\ session["user_id"] = GoodToken.uid
          /\ firebase_app

\* C9 (step part): user_id enters the session only in a step answered 200 by
\* /login or /signup, and a login or signup answered 400 or 401 leaves the
\* session as it was.
C9_Step ==
    /\ (Has(session', "user_id") /\ ~Has(session, "user_id")) =>
          (resp'.route \in {"login", "signup"} /\ resp'.code = 200)
    /\ (resp'.route \in {"login", "signup"} /\ resp'.code \in {400, 401}) =>
          session' = session

\* C9: whatever logins, signups and logouts came before, /stream, /asklurk,
\* /health and /chat without user_id are redirected to login and produce
\* nothing; user_id enters the session only through a verified token.
C9_LoginGate == []C9_State /\ [][C9_Step]_vars

\* After a sign-in and a logout, /asklurk is redirected.
C9_Witness ==
    /\ first_signin # -1
    /\ ~Has(session, "user_id")
    /\ resp.route = "asklurk"
    /\ resp.code = 302

\* C10: for a non-empty answers mapping and a non-empty prompt, asklurk
\* answers 200 with an entry of the mapping whose answer is at least as long
\* as every other and strictly longer than every entry before it.
C10_LongestFirst ==
    (resp.route = "asklurk" /\ Len(lurk.answers) > 0 /\ Len(lurk.prompt) > 0) =>
        /\ resp.code = 200
        /\ \E i \in 1..Len(lurk.answers) :
              /\ resp.best_model = lurk.answers[i].k
              /\ resp.best = lurk.answers[i].v
              /\ \A j \in 1..Len(lurk.answers) :
                    Len(lurk.answers[j].v) <= Len(lurk.answers[i].v)
              /\ \A j \in 1..(i - 1) :
                    Len(lurk.answers[j].v) < Len(lurk.answers[i].v)

\* Two answers share the greatest length and the first was returned.
C10_Witness ==
    /\ resp.route = "asklurk"
    /\ resp.code = 200
    /\ Len(lurk.answers) = 2
    /\ Len(lurk.answers[1].v) = Len(lurk.answers[2].v)
    /\ Len(lurk.answers[1].v) > 0
    /\ resp.best_model = lurk.answers[1].k

-----------------------------------------------------------------------------
(* Properties of the best-answer picker's input check *)

\* C11: whenever the answers mapping posted to /asklurk by a signed-in
\* caller is absent or empty, or the prompt is absent or empty, whatever the
\* other field holds, the answer is status 400 with an error and without a
\* best answer or best model.
C11_MissingInput400 ==
    (/\ resp.route = "asklurk"
     /\ Has(session, "user_id")
     /\ \/ ~lurk.has_answers
        \/ Len(lurk.answers) = 0
        \/ ~lurk.has_prompt
        \/ Len(lurk.prompt) = 0) =>
        /\ resp.code = 400
        /\ resp.error # ""
        /\ resp.best = <<>>
        /\ resp.best_model = ""

\* A body with a full answers mapping and an empty prompt was refused.
C11_Witness ==
    /\ resp.route = "asklurk"
    /\ Has(session, "user_id")
    /\ lurk.has_answers
    /\ Len(lurk.answers) = MaxAnswers
    /\ lurk.has_prompt
    /\ Len(lurk.prompt) = 0
    /\ resp.code = 400

-----------------------------------------------------------------------------
(* Properties of the fan-out's edges *)

\* C12: a permitted request whose selected_models list is empty streams
\* exactly two events, the start marker and right after it the overall-done
\* marker; no backend event is emitted, no upstream call is made and the
\* counter stays 0.
C12_EmptySelection ==
    (form.posted /\ resp.code = 200 /\ Len(form.selected_models) = 0) =>
        /\ calls = <<>>
        /\ global_counter = 0
        /\ pc \in {"start", "loop", "done"}
        /\ pc = "start" => events = <<>>
        /\ pc = "loop" => events = <<Ev("start", "", 0, 0, "")>>
        /\ pc = "done" => events = <<Ev("start", "", 0, 0, ""),
                                     Ev("overall", "", 0, 0, "")>>

\* The stream of a request with an empty list has ended.
C12_Witness ==
    /\ form.posted
    /\ resp.code = 200
    /\ form.selected_models = <<>>
    /\ pc = "done"
    /\ Len(events) = 2

-----------------------------------------------------------------------------
(* Properties of the prompt assembly *)

\* The pieces a part of the text t may be made of
PartsIn(t) == {<<>>} \cup {<<t[i]>> : i \in 1..Len(t)}

\* C13: the text extracted from an upload list is made of exactly one part
\* per file, in upload order; the part of a file whose reading fails is one
\* placeholder that names this file and reports the error, the part of every
\* other file is its own text (or its "attached" placeholder), whatever
\* failed before or after it, and the request is answered 200.
C13_PerFileIsolation ==
    (form.posted /\ form.json_ok /\ Has(session, "user_id")) =>
        /\ resp.code = 200
        /\ \E parts \in [1..Len(form.files) -> PartsIn(req.file_text)] :
              /\ req.file_text = join(parts)
              /\ \A i \in 1..Len(form.files) :
                    LET file == form.files[i]
                    IN  IF file.fails
                        THEN /\ Len(parts[i]) = 1
                             /\ parts[i][1].kind = "error"
                             /\ parts[i][1].name = file.name
                        ELSE IF file.ext \in {"pdf", "txt"}
                        THEN parts[i] = IF file.tok = 0 THEN <<>>
                                        ELSE <<Piece("content", file.name, file.tok)>>
                        ELSE /\ Len(parts[i]) = 1
                             /\ parts[i][1].kind = "attached"
                             /\ parts[i][1].name = file.name

\* A corrupted PDF was uploaded before a text file: the placeholder of the
\* first is followed by the text of the second.
C13_Witness ==
    /\ form.posted
    /\ resp.code = 200
    /\ Len(form.files) = 2
    /\ form.files[1].fails
    /\ ~form.files[2].fails
    /\ form.files[2].tok > 0
    /\ Len(req.file_text) = 3
    /\ req.file_text[1].kind = "error"
    /\ req.file_text[1].name = form.files[1].name
    /\ req.file_text[2] = NL2
    /\ req.file_text[3] = Piece("content", form.files[2].name, form.files[2].tok)

\* The prompt field of the latest form, "" when absent
TypedPrompt == IF form.has_prompt THEN form.prompt ELSE <<>>

RECURSIVE Concat(_)
\* The texts of a sequence one after the other, nothing in between
Concat(parts) ==
    IF Len(parts) = 0 THEN <<>> ELSE Head(parts) \o Concat(Tail(parts))

\* A text without its leading and trailing whitespace
Trim(t) ==
    LET ink == {i \in 1..Len(t) : t[i].kind # "nl2"}
    IN  IF ink = {} THEN <<>>
        ELSE SubSeq(t, CHOOSE i \in ink : \A j \in ink : i <= j,
                       CHOOSE i \in ink : \A j \in ink : j <= i)

-----------------------------------------------------------------------------
(* Properties of the shared counter *)

\* The generator of the request is alive and has not finished
InFanout == pc \in {"start", "loop", "create", "iter", "after"}

C15_State == pc = "start" => global_counter = 0

C15_Step == InFanout => global_counter' >= global_counter

\* C15: the counter of a request is 0 when its generator starts, and no
\* step of the generator (start, text, error, done, skipped key, missing key,
\* entering the next backend, overall done) lowers it.
C15_Monotonic == []C15_State /\ [][C15_Step]_vars

\* The second backend is being streamed with the tokens of the first counted.
C15_Witness ==
    /\ pc = "iter"
    /\ idx = 2
    /\ global_counter > 0
    /\ \E n \in 1..Len(events) : events[n].kind = "done" /\ events[n].pos = 1

-----------------------------------------------------------------------------
(* Properties of a backend's terminal event *)

\* The terminal events (done or error) of the backend at position p
TerminalsAt(p) == SelectSeq(EventsAt(p), LAMBDA e : e.kind \in {"done", "error"})

\* C16: a backend that was processed and left ends with exactly one terminal
\* event, its last one: done when the upstream stream was exhausted, the
\* error when it stopped on the budget or on an exception, never both.
C16_OneTerminalEvent ==
    \A p \in 1..Len(req.selected_models) :
        (p < idx /\ req.selected_models[p] \in MODELS) =>
            /\ Len(TerminalsAt(p)) = 1
            /\ EventsAt(p)[Len(EventsAt(p))] = TerminalsAt(p)[1]

-----------------------------------------------------------------------------
(* Termination of the fan-out *)

\* The events of kind k emitted so far
OfKind(k) == SelectSeq(events, LAMBDA e : e.kind = k)

C17_State ==
    /\ (InFanout \/ pc = "done") => Len(OfKind("start")) = (IF pc = "start" THEN 0 ELSE 1)
    /\ Len(events) > 0 => events[1].kind = "start"
    /\ InFanout => Len(OfKind("overall")) = 0
    /\ pc = "done" =>
          /\ Len(OfKind("overall")) = 1
          /\ events[Len(events)].kind = "overall"

\* C17: every permitted /stream request, served by a server that keeps
\* pulling the generator and by upstream streams that end, reaches the end
\* of its stream; the stream has exactly one start marker, its first event,
\* and exactly one overall-done marker, its last event, whatever missing
\* keys, upstream exceptions and budget errors occur among the backends.
C17_ReachesRequestDone == []C17_State /\ (pc = "start" ~> pc = "done")

\* A request has ended after an upstream exception in one backend and a
\* budget error in another.
C17_Witness ==
    /\ pc = "done"
    /\ events[1].kind = "start"
    /\ events[Len(events)].kind = "overall"
    /\ \E n \in 1..Len(events) : IsException(events[n])
    /\ \E n \in 1..Len(events) : IsLimitError(events[n])

-----------------------------------------------------------------------------
(* The counter as a sum *)

C18_State == global_counter = TextTokens(Len(events))

C18_Step ==
    InFanout =>
        IF Len(events') = Len(events) + 1 /\ events'[Len(events')].kind = "text"
        THEN global_counter' = global_counter + events'[Len(events')].tokens
        ELSE global_counter' = global_counter

\* C18: at every point of a request the counter is the sum of the tokens
\* fields of the text events emitted so far, over all backends: a step that
\* emits a text event adds the tokens the event carries, every other step
\* (input tokens counted, error, done, skipped or refused key) adds nothing.
C18_CounterIsTextSum == []C18_State /\ [][C18_Step]_vars

\* Text events of two backends have been counted.
C18_Witness ==
    /\ global_counter = 4
    /\ \E m, n \in 1..Len(events) :
          /\ events[m].kind = "text" /\ events[m].pos = 1 /\ events[m].tokens = 2
          /\ events[n].kind = "text" /\ events[n].pos = 2 /\ events[n].tokens = 2

-----------------------------------------------------------------------------
(* Properties of the session's two keys *)

C19_State ==
    Has(session, "user_id") =>
        /\ Has(session, "signup_time")
        /\ get_time_limit_status(session, now).status # "unknown"

C19_Step ==
    (Has(session, "user_id") /\ resp'.route \in {"login", "signup"}) =>
        /\ session' = session
        /\ resp'.code = 302

\* C19: after any sequence of logins, signups and logouts with valid,
\* invalid or missing tokens, a session that holds user_id holds signup_time,
\* so its trial status is never "unknown"; and a request to /login or
\* /signup made while user_id is in the session is redirected and changes
\* neither user_id nor signup_time.
C19_SessionKeys == []C19_State /\ [][C19_Step]_vars

\* /signup was requested by a signed-in session after its trial had started,
\* and the session still holds the earlier signup_time.
C19_Witness ==
    /\ Has(session, "user_id")
    /\ Has(session, "signup_time")
    /\ resp.route = "signup"
    /\ resp.code = 302
    /\ fromisoformat(session["signup_time"]) < now

-----------------------------------------------------------------------------
(* Properties of unknown keys *)

C20_State ==
    \A p \in 1..Len(req.selected_models) :
        req.selected_models[p] \notin MODELS =>
            /\ EventsAt(p) = <<>>
            /\ \A c \in 1..Len(calls) : calls[c] # p

C20_Step ==
    (/\ pc = "loop"
     /\ idx <= Len(req.selected_models)
     /\ req.selected_models[idx] \notin MODELS) =>
        /\ idx' = idx + 1
        /\ UNCHANGED <<pc, req, global_counter, input_tokens, nchunks, events,
                       calls, resp, session>>

\* C20: a selected key that is not in MODELS gets no text, error or done
\* event and no upstream call; the step that meets it only moves the loop to
\* the next key and leaves the counter, the events, the calls and the rest
\* of the request as they were, so the backends after it are processed from
\* the state they would have been processed from without it.
C20_UnknownKeySkipped == []C20_State /\ [][C20_Step]_vars

\* An unknown key came first; the backend after it has streamed text and the
\* request has ended.
C20_Witness ==
    /\ pc = "done"
    /\ Len(req.selected_models) = 2
    /\ req.selected_models[1] \notin MODELS
    /\ req.selected_models[2] \in MODELS
    /\ EventsAt(1) = <<>>
    /\ \E n \in 1..Len(events) : events[n].kind = "text" /\ events[n].pos = 2
    /\ global_counter > 0

====
